---- MODULE Spec2Model ----
(***************************************************************************)
(* Tool Database Manager (woodpecker/tool_db/tool_db.py).                  *)
(*                                                                         *)
(* The registry is two QSqlTableModel views (edit strategy OnFieldChange)  *)
(* over the tables offsets and tools of one SQLite file.  A model's rows   *)
(* are the rows of its last select(), in the ORDER BY of its sort setting, *)
(* followed by the rows inserted since, in insertion order.  Every write   *)
(* goes through to the table at once, so a view always holds exactly the   *)
(* rows of its table; only the order is the view's own.                    *)
(*                                                                         *)
(* Row indexes are 1-based here (0-based in the source); 0 stands for      *)
(* Python's None ("not found").  A cumulative time is kept in thousandths  *)
(* of a minute, the three decimals the source stores.  Data stands for the *)
(* offset fields other than Tool (Pocket, the axis offsets, Diameter, I,   *)
(* J, Q, Comment), which the source always moves together.                 *)
(***************************************************************************)
EXTENDS Integers, Sequences, FiniteSets, TLC

VARIABLES
    offsets,        \* MyOffsetModel: the rows of the offsets view, in view order
    tools,          \* MyToolModel: the rows of the tools view, in view order
    offset_sort,    \* MyOffsetModel's sort setting (setSort)
    tool_sort,      \* MyToolModel's sort setting (setSort)
    tool_list,      \* MyOffsetModel.tool_list
    tool_array,     \* the controller's tool table, TOOL.GET_TOOL_MODELS()
    next_idn,       \* SQLite's AUTOINCREMENT sequence of offsets.idn
    next_available, \* Tool_Database.next_available
    timer_dict,     \* Tool_Database.timer_dict
    timer_tenths,   \* Tool_Database.timer_tenths
    auto_mode,      \* STATUS.is_auto_mode()
    interp_run,     \* the interpreter is not idle (STATUS)
    event,          \* the handler that ran last, with its argument
    h_m,            \* history: the timed tool's own stored TIME at the last start, -1 if it had no row
    h_ticks,        \* history: heartbeats since the last start if nothing else happened, else -1
    h_seed,         \* history: the seconds of the timed tool's own stored TIME at the last
                    \* start (0 if it had no row) plus the seconds counted since, -1 if untracked
    h_stop          \* history: the elapsed counter a stop has just written, else -1

vars == <<offsets, tools, offset_sort, tool_sort, tool_list, tool_array, next_idn,
          next_available, timer_dict, timer_tenths, auto_mode, interp_run, event,
          h_m, h_ticks, h_seed, h_stop>>

regVars == <<offsets, tools, offset_sort, tool_sort, tool_list, tool_array, next_idn>>
timerState == <<next_available, timer_dict, timer_tenths, auto_mode, interp_run>>

\* an event other than a timer start or a heartbeat ends the run the history follows
HistReset == h_m' = -1 /\ h_ticks' = -1 /\ h_stop' = -1 /\ h_seed' = h_seed

(***************************************************************************)
(* Bounds of the model.                                                    *)
(***************************************************************************)
MaxTool == 2        \* the registry holds tool numbers 1..MaxTool
MaxData == 1        \* offset data values 0..MaxData
MaxIdn == 3         \* rows ever inserted into offsets
MaxRows == 3        \* longest controller tool table
ReloadLen == 2      \* longest tool table loaded from outside in one step
MaxTime == 2        \* seconds an elapsed counter may reach
MaxTicks == 20      \* heartbeats counted by the history variable
TimerRows == 2      \* rows ever inserted while the timer is modelled
MaxHole == 4        \* the numbers a controller table may skip are 0..MaxHole

(***************************************************************************)
(* Program constants.                                                      *)
(***************************************************************************)
ToolLimit == 100    \* get_next_available scans range(0, 100)
TenthsPerSecond == 10

ToolNos == 1..MaxTool
DataVals == 0..MaxData
NewToolData == 0    \* the offset fields add_tool gives a new tool

Range(s) == {s[i] : i \in DOMAIN s}

RemoveAt(s, i) == [j \in 1..(Len(s) - 1) |-> IF j < i THEN s[j] ELSE s[j + 1]]

Reverse(s) == [j \in 1..Len(s) |-> s[Len(s) + 1 - j]]

ToolNumbers(rows) == {rows[i].Tool : i \in DOMAIN rows}

MetaNumbers(rows) == {rows[i].TOOL : i \in DOMAIN rows}

(***************************************************************************)
(* select(): the table's rows in the model's ORDER BY.  Without a sort     *)
(* column SQLite returns the rows in rowid (idn) order, which is also how  *)
(* rows that compare equal are ordered here.                               *)
(***************************************************************************)
NoSort == [col |-> "idn", desc |-> FALSE]

RowBefore(a, b, srt) ==
    IF a[srt.col] # b[srt.col]
    THEN IF srt.desc THEN a[srt.col] > b[srt.col] ELSE a[srt.col] < b[srt.col]
    ELSE a.idn < b.idn

RECURSIVE InsertRow(_, _, _)
InsertRow(sorted, r, srt) ==
    IF sorted = <<>> THEN <<r>>
    ELSE IF RowBefore(r, Head(sorted), srt) THEN <<r>> \o sorted
    ELSE <<Head(sorted)>> \o InsertRow(Tail(sorted), r, srt)

RECURSIVE select(_, _)
select(rows, srt) ==
    IF rows = <<>> THEN <<>>
    ELSE InsertRow(select(Tail(rows), srt), Head(rows), srt)

(***************************************************************************)
(* MyOffsetModel.get_index / MyToolModel.get_index: the first row with the *)
(* tool number, 0 for None.                                                *)
(***************************************************************************)
get_index(rows, tno) ==
    IF \E i \in DOMAIN rows : rows[i].Tool = tno
    THEN CHOOSE i \in DOMAIN rows :
            rows[i].Tool = tno /\ \A j \in 1..(i - 1) : rows[j].Tool # tno
    ELSE 0

tool_get_index(rows, tno) ==
    IF \E i \in DOMAIN rows : rows[i].TOOL = tno
    THEN CHOOSE i \in DOMAIN rows :
            rows[i].TOOL = tno /\ \A j \in 1..(i - 1) : rows[j].TOOL # tno
    ELSE 0

(***************************************************************************)
(* The registry part of the state that update() threads through its loops. *)
(***************************************************************************)
Reg(o, t, n) == [offsets |-> o, tools |-> t, next_idn |-> n]

\* MyToolModel.addrow(pkey, tno): a tools row with the offsets row's idn, TIME 0.0;
\* the insert is refused (and logged) when a tools row already has that idn,
\* the table's PRIMARY KEY
tool_addrow(trows, pkey, tno) ==
    IF \E j \in DOMAIN trows : trows[j].idn = pkey THEN trows
    ELSE Append(trows, [idn |-> pkey, TOOL |-> tno, TIME |-> 0])

\* an addrow that fills the columns one place early, Chk from the tool number
addrow_checked(st, line) ==
    [offsets |-> Append(st.offsets, [idn |-> st.next_idn, Chk |-> 1,
                                     Tool |-> line.Tool, Data |-> line.Data]),
     tools |-> tool_addrow(st.tools, st.next_idn, line.Tool),
     next_idn |-> st.next_idn + 1]

\* MyOffsetModel.addrow(data): a new offsets row at the end (idn from the
\* AUTOINCREMENT sequence, Chk unset), then the paired tools row
addrow(st, line) ==
    Reg(Append(st.offsets, [idn |-> st.next_idn, Chk |-> 0,
                            Tool |-> line.Tool, Data |-> line.Data]),
        tool_addrow(st.tools, st.next_idn, line.Tool),
        st.next_idn + 1)

\* an update_row that replaces the row by a new record of the line
update_row_replace(st, row, line) ==
    Reg([st.offsets EXCEPT ![row] = [idn |-> st.next_idn, Chk |-> 0,
                                     Tool |-> line.Tool, Data |-> line.Data]],
        st.tools, st.next_idn + 1)

\* MyOffsetModel.update_row(row, data): every column of offset_headers
\* (Tool .. Comment) is overwritten; idn and Chk are not among them
update_row(st, row, line) ==
    Reg([st.offsets EXCEPT ![row].Tool = line.Tool, ![row].Data = line.Data],
        st.tools, st.next_idn)

\* MyOffsetModel.delrow(tno): the offsets row of tno is removed, and then the
\* tools row AT THE SAME INDEX of the tools view; both views are re-selected
delrow(st, tno, osort, tsort) ==
    LET row == get_index(st.offsets, tno) IN
    IF row = 0 THEN st
    ELSE Reg(select(RemoveAt(st.offsets, row), osort),
             select(IF row <= Len(st.tools) THEN RemoveAt(st.tools, row)
                    ELSE st.tools, tsort),
             st.next_idn)

RECURSIVE UpdateLines(_, _)
UpdateLines(lines, st) ==
    IF lines = <<>> THEN st
    ELSE LET line == Head(lines)
             row == get_index(st.offsets, line.Tool)
         IN UpdateLines(Tail(lines),
                        IF row = 0 THEN addrow(st, line)
                        ELSE update_row(st, row, line))

RECURSIVE DeleteRows(_, _, _, _)
DeleteRows(dl, st, osort, tsort) ==
    IF dl = <<>> THEN st
    ELSE DeleteRows(Tail(dl), delrow(st, Head(dl), osort, tsort), osort, tsort)

\* the tool numbers of the rows that are not in the list, in row order
RECURSIVE DeleteList(_, _)
DeleteList(rows, tl) ==
    IF rows = <<>> THEN <<>>
    ELSE (IF Head(rows).Tool \in Range(tl) THEN <<>> ELSE <<Head(rows).Tool>>)
         \o DeleteList(Tail(rows), tl)

ListNumbers(lines) == [i \in 1..Len(lines) |-> lines[i].Tool]

\* MyOffsetModel.update(): the registry after reconciling it with `lines`
update(st, lines, osort, tsort) ==
    LET st1 == UpdateLines(lines, st)
        dl == DeleteList(st1.offsets, ListNumbers(lines))
    IN DeleteRows(IF Len(dl) > 1 THEN Reverse(dl) ELSE dl, st1, osort, tsort)

\* how many rows update() would insert for `lines`
NewRows(st, lines) ==
    Cardinality({lines[i].Tool : i \in DOMAIN lines} \ ToolNumbers(st.offsets))

Records == [Tool : ToolNos, Data : DataVals]

RECURSIVE SeqsUpTo(_, _)
SeqsUpTo(S, n) ==
    IF n = 0 THEN {<<>>}
    ELSE LET shorter == SeqsUpTo(S, n - 1)
         IN shorter \cup {Append(s, x) : s \in {q \in shorter : Len(q) = n - 1}, x \in S}

Ev(op, arg) == [op |-> op, arg |-> arg]

(***************************************************************************)
(* Init: Tool_Database.__init__ on a new database file with an empty       *)
(* controller tool table.  init_tool_view's setSortingEnabled(True) sorts  *)
(* the tools model by the sort indicator set just before, column 1 (TOOL)  *)
(* ascending; the same call on the offsets model is dropped by             *)
(* MyOffsetModel.sort, which ignores column 1.                             *)
(***************************************************************************)
Init ==
    /\ offsets = <<>>
    /\ tools = <<>>
    /\ offset_sort = NoSort
    /\ tool_sort = [col |-> "TOOL", desc |-> FALSE]
    /\ tool_list = <<>>
    /\ tool_array = <<>>
    /\ next_idn = 1
    /\ next_available = 0
    /\ timer_dict = [running |-> FALSE, tool |-> 0, time |-> 0]
    /\ timer_tenths = 0
    /\ auto_mode = FALSE
    /\ interp_run = FALSE
    /\ event = Ev("init", 0)
    /\ h_m = -1
    /\ h_ticks = -1
    /\ h_seed = -1
    /\ h_stop = -1

\* the registry variables after update() against the controller's table `lines`
Reconcile(lines) ==
    LET st == update(Reg(offsets, tools, next_idn), lines, offset_sort, tool_sort) IN
    /\ next_idn + NewRows(Reg(offsets, tools, next_idn), lines) - 1 <= MaxIdn
    /\ tool_array' = lines
    /\ tool_list' = ListNumbers(lines)
    /\ offsets' = st.offsets
    /\ tools' = st.tools
    /\ next_idn' = st.next_idn
    /\ UNCHANGED <<offset_sort, tool_sort>>

\* the host reloads the controller's tool table and calls offset_model.update()
Reload(lines) ==
    /\ Reconcile(lines)
    /\ event' = Ev("update", 0)
    /\ HistReset
    /\ UNCHANGED timerState

\* Tool_Database.add_tool(tno)
add_tool(tno) ==
    /\ Len(tool_array) < MaxRows
    /\ Reconcile(Append(tool_array, [Tool |-> tno, Data |-> NewToolData]))
    /\ event' = Ev("add_tool", 0)
    /\ HistReset
    /\ UNCHANGED timerState

\* Tool_Database.delete_tool(tno)
delete_tool(tno) ==
    /\ Reconcile(SelectSeq(tool_array, LAMBDA line : line.Tool # tno))
    /\ event' = Ev("delete_tool", 0)
    /\ HistReset
    /\ UNCHANGED timerState

\* the host calls offset_model.update() with the controller's table as it is
update_again ==
    /\ Reconcile(tool_array)
    /\ event' = Ev("update", 0)
    /\ HistReset
    /\ UNCHANGED timerState

OffsetSorts == {[col |-> "Tool", desc |-> d] : d \in BOOLEAN}
ToolSorts == {[col |-> "TOOL", desc |-> d] : d \in BOOLEAN}

\* MyOffsetModel.sort(column, order), from a click on a header of the offsets
\* view other than Chk: QSqlTableModel.sort is setSort and select
sort(srt) ==
    /\ offset_sort' = srt
    /\ offsets' = select(offsets, srt)
    /\ event' = Ev("sort", 0)
    /\ HistReset
    /\ UNCHANGED <<tools, tool_sort, tool_list, tool_array, next_idn>>
    /\ UNCHANGED timerState

\* QSqlTableModel.sort of the tools model, from a click on a header of the tools view
tool_model_sort(srt) ==
    /\ tool_sort' = srt
    /\ tools' = select(tools, srt)
    /\ event' = Ev("sort", 0)
    /\ HistReset
    /\ UNCHANGED <<offsets, offset_sort, tool_list, tool_array, next_idn>>
    /\ UNCHANGED timerState

\* an uncheck_all_tools that clears nothing
uncheck_none(rows) == rows

\* MyOffsetModel.uncheck_all_tools(): every row with Chk = 1 gets Chk = 0
uncheck_all_tools(rows) ==
    [i \in 1..Len(rows) |-> IF rows[i].Chk = 1 THEN [rows[i] EXCEPT !.Chk = 0] ELSE rows[i]]

\* MyOffsetModel.list_checked_tools(): the tool numbers of the checked rows, in row order
RECURSIVE list_checked_tools(_)
list_checked_tools(rows) ==
    IF rows = <<>> THEN <<>>
    ELSE (IF Head(rows).Chk = 1 THEN <<Head(rows).Tool>> ELSE <<>>)
         \o list_checked_tools(Tail(rows))

\* MyOffsetModel.setData(index(row, Chk), Checked | Unchecked, CheckStateRole)
setData(row, checked) ==
    /\ row \in DOMAIN offsets
    /\ offsets' = IF checked
                  THEN [uncheck_all_tools(offsets) EXCEPT ![row].Chk = 1]
                  ELSE [offsets EXCEPT ![row].Chk = 0]
    /\ event' = Ev(IF checked THEN "check" ELSE "uncheck", row)
    /\ HistReset
    /\ UNCHANGED <<tools, offset_sort, tool_sort, tool_list, tool_array, next_idn>>
    /\ UNCHANGED timerState

\* Tool_Database.save_table(): the offsets rows as tool-table lines, in view order
save_table(rows) == [i \in 1..Len(rows) |-> [Tool |-> rows[i].Tool, Data |-> rows[i].Data]]

\* MyToolModel.update_tool_no(old_tno, new_tno), for a row that get_index found
update_tool_no(trows, old_tno, new_tno) ==
    [trows EXCEPT ![tool_get_index(trows, old_tno)].TOOL = new_tno]

\* Tool_Database.callOffsetDialog(item, 'Tool'), the dialog accepted with
\* ret_val (edit mode on).  update_tool_no raises when the tools model has no
\* row of the old number (index(None, col)): the handler ends there, after the
\* offsets row and tool_list were changed.  data_changed() saves the offsets
\* rows as the controller's table when the status is valid.
callOffsetDialog_Tool(row, ret_val) ==
    /\ row \in DOMAIN offsets
    /\ LET preload == offsets[row].Tool
           raised == tool_get_index(tools, preload) = 0
       IN /\ offsets' = [offsets EXCEPT ![row].Tool = ret_val]
          /\ tool_list' = [i \in 1..Len(tool_list) |->
                              IF tool_list[i] = preload THEN ret_val ELSE tool_list[i]]
          /\ tools' = IF raised THEN tools ELSE update_tool_no(tools, preload, ret_val)
          /\ tool_array' = IF raised THEN tool_array ELSE save_table(offsets')
    /\ event' = Ev("callOffsetDialog", 0)
    /\ HistReset
    /\ UNCHANGED <<offset_sort, tool_sort, next_idn>>
    /\ UNCHANGED timerState

\* Tool_Database.callOffsetDialog(item, field) for the other offset fields
callOffsetDialog_Data(row, ret_val) ==
    /\ row \in DOMAIN offsets
    /\ offsets' = [offsets EXCEPT ![row].Data = ret_val]
    /\ tool_array' = save_table(offsets')
    /\ event' = Ev("callOffsetDialog", 0)
    /\ HistReset
    /\ UNCHANGED <<tools, offset_sort, tool_sort, tool_list, next_idn>>
    /\ UNCHANGED timerState

PlainRecords == [Tool : ToolNos, Data : {NewToolData}]

(***************************************************************************)
(* SpecReg: reconciliation, renumbering and sorting of the two views, the  *)
(* offset data left at the value add_tool gives it.                        *)
(***************************************************************************)
RegNext ==
    \/ \E lines \in SeqsUpTo(PlainRecords, ReloadLen) : Reload(lines)
    \/ update_again
    \/ \E tno \in ToolNos : add_tool(tno)
    \/ \E tno \in ToolNos : delete_tool(tno)
    \/ \E srt \in OffsetSorts : sort(srt)
    \/ \E srt \in ToolSorts : tool_model_sort(srt)
    \/ \E row \in 1..MaxIdn, ret_val \in ToolNos : callOffsetDialog_Tool(row, ret_val)

SpecReg == Init /\ [][RegNext]_vars

(***************************************************************************)
(* SpecChk: the check column, with reconciliation and renumbering.         *)
(***************************************************************************)
ChkNext ==
    \/ \E row \in 1..MaxIdn, checked \in BOOLEAN : setData(row, checked)
    \/ \E lines \in SeqsUpTo(PlainRecords, ReloadLen) : Reload(lines)
    \/ \E tno \in ToolNos : add_tool(tno)
    \/ \E tno \in ToolNos : delete_tool(tno)
    \/ \E row \in 1..MaxIdn, ret_val \in ToolNos : callOffsetDialog_Tool(row, ret_val)

SpecChk == Init /\ [][ChkNext]_vars

(***************************************************************************)
(* SpecData: reconciliation with tool tables that carry offset data.       *)
(***************************************************************************)
DataNext ==
    \/ \E lines \in SeqsUpTo(Records, ReloadLen) : Reload(lines)
    \/ \E srt \in OffsetSorts : sort(srt)
    \/ \E row \in 1..MaxIdn, ret_val \in ToolNos : callOffsetDialog_Tool(row, ret_val)
    \/ \E row \in 1..MaxIdn, ret_val \in DataVals : callOffsetDialog_Data(row, ret_val)

SpecData == Init /\ [][DataNext]_vars

(***************************************************************************)
(* The usage timer.                                                        *)
(***************************************************************************)

\* int(pre_time * 60): the whole seconds of a stored TIME.  The binary64
\* product falls one ulp short of the whole number at the stored values
\* ShortProducts (all there are below 16.150 minutes), and int() truncates.
ShortProducts == {2050, 4100, 8200, 8450}

pre_time_seconds(milli) ==
    (milli * 60) \div 1000 - (IF milli \in ShortProducts THEN 1 ELSE 0)

\* f"{time / 60:.3f}": seconds as minutes rounded to three decimals
total_time(secs) == (secs * 1000 + 30) \div 60

\* the two views list the same rows in the same order
Aligned ==
    /\ Len(offsets) = Len(tools)
    /\ \A i \in DOMAIN offsets :
          offsets[i].idn = tools[i].idn /\ offsets[i].Tool = tools[i].TOOL

\* the TIME stored in the tools row that carries the tool number, -1 if none
StoredTime(trows, tno) ==
    IF tool_get_index(trows, tno) = 0 THEN -1
    ELSE trows[tool_get_index(trows, tno)].TIME

\* Tool_Database.start_tool_timer(): the timer_dict it leaves.  The row is
\* looked up in the offsets model and read from the tools model at that index.
start_tool_timer(td, orows, trows) ==
    IF td.tool = 0 THEN td
    ELSE LET row == get_index(orows, td.tool) IN
         IF row = 0 \/ row > Len(trows) THEN [td EXCEPT !.running = TRUE]
         ELSE [td EXCEPT !.running = TRUE, !.time = pre_time_seconds(trows[row].TIME)]

\* Tool_Database.stop_tool_timer(): the tools rows it leaves
stop_tool_timer(td, orows, trows) ==
    IF ~td.running THEN trows
    ELSE LET row == get_index(orows, td.tool) IN
         IF row = 0 \/ row > Len(trows) THEN trows
         ELSE [trows EXCEPT ![row].TIME = total_time(td.time)]

\* stop_tool_timer() reaches its setData: the timer runs and get_index finds a row
stop_writes(td, orows, trows) ==
    /\ td.running
    /\ get_index(orows, td.tool) # 0
    /\ get_index(orows, td.tool) <= Len(trows)

\* the history of a start: the tool's own stored TIME, and no heartbeat yet;
\* the seconds of that TIME are followed while the two views are aligned
HistStart(td) ==
    /\ h_m' = StoredTime(tools, td.tool)
    /\ h_ticks' = 0
    /\ h_stop' = -1
    /\ h_seed' = IF ~Aligned THEN -1
                 ELSE IF StoredTime(tools, td.tool) < 0 THEN 0
                 ELSE pre_time_seconds(StoredTime(tools, td.tool))

\* Tool_Database.tool_timer(), on STATUS's periodic heartbeat (100 ms)
tool_timer ==
    /\ timer_tenths + 1 = TenthsPerSecond /\ timer_dict.running => timer_dict.time < MaxTime
    /\ timer_tenths' = IF timer_tenths + 1 = TenthsPerSecond THEN 0 ELSE timer_tenths + 1
    /\ timer_dict' = IF timer_tenths + 1 = TenthsPerSecond /\ timer_dict.running
                     THEN [timer_dict EXCEPT !.time = @ + 1]
                     ELSE timer_dict
    /\ event' = Ev("tool_timer", 0)
    /\ h_ticks' = IF h_ticks >= 0 /\ h_ticks < MaxTicks THEN h_ticks + 1 ELSE -1
    /\ h_m' = IF h_ticks >= 0 /\ h_ticks < MaxTicks THEN h_m ELSE -1
    /\ h_seed' = IF h_seed >= 0 /\ timer_tenths + 1 = TenthsPerSecond /\ timer_dict.running
                 THEN h_seed + 1 ELSE h_seed
    /\ h_stop' = -1
    /\ UNCHANGED <<next_available, auto_mode, interp_run>>
    /\ UNCHANGED regVars

\* Tool_Database.tool_changed(tool), on tool-in-spindle-changed;
\* STATUS.is_auto_running() is automatic mode with the interpreter not idle
tool_changed(tool) ==
    /\ IF tool > 0
       THEN LET td == [timer_dict EXCEPT !.tool = tool] IN
            IF auto_mode /\ interp_run
            THEN timer_dict' = start_tool_timer(td, offsets, tools) /\ HistStart(td)
            ELSE timer_dict' = td /\ HistReset
       ELSE UNCHANGED timer_dict /\ HistReset
    /\ event' = Ev("tool_changed", tool)
    /\ UNCHANGED <<next_available, timer_tenths, auto_mode, interp_run>>
    /\ UNCHANGED regVars

\* Tool_Database.interp_state(True), on interp-run
interp_run_event ==
    /\ ~interp_run
    /\ interp_run' = TRUE
    /\ IF auto_mode
       THEN /\ timer_dict' = start_tool_timer(timer_dict, offsets, tools)
            /\ IF timer_dict.tool = 0 THEN HistReset ELSE HistStart(timer_dict)
       ELSE UNCHANGED timer_dict /\ HistReset
    /\ event' = Ev("interp_state", 1)
    /\ UNCHANGED <<next_available, timer_tenths, auto_mode>>
    /\ UNCHANGED regVars

\* Tool_Database.interp_state(False), on interp-idle
interp_idle_event ==
    /\ interp_run
    /\ interp_run' = FALSE
    /\ IF auto_mode
       THEN /\ timer_dict' = [timer_dict EXCEPT !.running = FALSE]
            /\ tools' = stop_tool_timer(timer_dict, offsets, tools)
       ELSE UNCHANGED <<timer_dict, tools>>
    /\ event' = Ev("interp_state", 0)
    /\ h_m' = -1 /\ h_ticks' = -1 /\ h_seed' = -1
    /\ h_stop' = IF auto_mode /\ stop_writes(timer_dict, offsets, tools)
                 THEN timer_dict.time ELSE -1
    /\ UNCHANGED <<next_available, timer_tenths, auto_mode>>
    /\ UNCHANGED <<offsets, offset_sort, tool_sort, tool_list, tool_array, next_idn>>

\* the controller changes between automatic and another mode; it does so only
\* while the interpreter is idle
mode_change ==
    /\ ~interp_run
    /\ auto_mode' = ~auto_mode
    /\ event' = Ev("mode", 0)
    /\ HistReset
    /\ UNCHANGED <<next_available, timer_dict, timer_tenths, interp_run>>
    /\ UNCHANGED regVars

(***************************************************************************)
(* SpecTimer: the timer's events over a registry of at most TimerRows      *)
(* tools.                                                                  *)
(***************************************************************************)
TimerNext ==
    \/ tool_timer
    \/ \E tool \in 0..MaxTool : tool_changed(tool)
    \/ interp_run_event
    \/ interp_idle_event
    \/ mode_change
    \/ \E tno \in ToolNos : next_idn <= TimerRows /\ add_tool(tno)
    \/ \E tno \in ToolNos : delete_tool(tno)
    \/ \E srt \in ToolSorts : tool_model_sort(srt)

SpecTimer == Init /\ [][TimerNext]_vars

(***************************************************************************)
(* SpecUpd: Tool_Database.__init__ on the database file of an earlier      *)
(* session (tools 1..n in both tables, with the offset data and the usage  *)
(* times that session left; Chk is 0 in every row but at most one) against *)
(* the controller table of the same tools, then reconciliation with tool   *)
(* tables that carry offset data, checks and sorting.  The offsets model   *)
(* selects in idn order, the tools model sorted by TOOL.                   *)
(***************************************************************************)
StoredTimes == {total_time(secs) : secs \in 0..MaxTime}

InitUpd ==
    \E n \in 0..MaxTool :
    \E data \in [1..n -> DataVals], time \in [1..n -> StoredTimes], chk \in 0..n :
        /\ offsets = [i \in 1..n |-> [idn |-> i, Chk |-> IF i = chk THEN 1 ELSE 0,
                                     Tool |-> i, Data |-> data[i]]]
        /\ tools = [i \in 1..n |-> [idn |-> i, TOOL |-> i, TIME |-> time[i]]]
        /\ offset_sort = NoSort
        /\ tool_sort = [col |-> "TOOL", desc |-> FALSE]
        /\ tool_array = [i \in 1..n |-> [Tool |-> i, Data |-> data[i]]]
        /\ tool_list = [i \in 1..n |-> i]
        /\ next_idn = n + 1
        /\ next_available = 0
        /\ timer_dict = [running |-> FALSE, tool |-> 0, time |-> 0]
        /\ timer_tenths = 0
        /\ auto_mode = FALSE
        /\ interp_run = FALSE
        /\ event = Ev("init", 0)
        /\ h_m = -1
        /\ h_ticks = -1
        /\ h_seed = -1
        /\ h_stop = -1

UpdNext ==
    \/ \E lines \in SeqsUpTo(Records, ReloadLen) : Reload(lines)
    \/ update_again
    \/ \E row \in 1..MaxIdn, checked \in BOOLEAN : setData(row, checked)
    \/ \E srt \in OffsetSorts : sort(srt)

SpecUpd == InitUpd /\ [][UpdNext]_vars

(***************************************************************************)
(* update() with a store failure.  One INSERT of the reconciliation is     *)
(* refused by the database (locked, full, I/O error): insertRecord returns *)
(* False, the code logs lastError and goes on.                             *)
(***************************************************************************)

\* which INSERT of addrow fails: that into offsets, that into tools, or both
InsertFailures == {"offsets", "tools", "both"}

\* the rowid SQLite gives a tools row inserted with idn NULL
tool_rowid(trows) ==
    IF trows = <<>> THEN 1
    ELSE 1 + (CHOOSE n \in {trows[j].idn : j \in DOMAIN trows} :
                 \A j \in DOMAIN trows : trows[j].idn <= n)

\* MyOffsetModel.addrow(data) with a failing INSERT.  When the offsets insert
\* fails no row is added at index `row`, pkey = self.data(self.index(row, 0))
\* is None, and tool_model.addrow(None, tno) is called all the same.
addrow_failing(st, line, mode) ==
    IF mode = "tools"
    THEN Reg(Append(st.offsets, [idn |-> st.next_idn, Chk |-> 0,
                                 Tool |-> line.Tool, Data |-> line.Data]),
             st.tools, st.next_idn + 1)
    ELSE IF mode = "offsets"
    THEN Reg(st.offsets,
             Append(st.tools, [idn |-> tool_rowid(st.tools), TOOL |-> line.Tool, TIME |-> 0]),
             st.next_idn)
    ELSE st

\* the first loop of update() when the insert for the record at position k fails
RECURSIVE UpdateLinesFailing(_, _, _, _, _)
UpdateLinesFailing(lines, pos, st, k, mode) ==
    IF pos > Len(lines) THEN st
    ELSE LET line == lines[pos]
             row == get_index(st.offsets, line.Tool)
         IN UpdateLinesFailing(lines, pos + 1,
                               IF row # 0 THEN update_row(st, row, line)
                               ELSE IF pos = k THEN addrow_failing(st, line, mode)
                               ELSE addrow(st, line),
                               k, mode)

\* MyOffsetModel.update() when the insert for the record at position k fails
update_failing(st, lines, osort, tsort, k, mode) ==
    LET st1 == UpdateLinesFailing(lines, 1, st, k, mode)
        dl == DeleteList(st1.offsets, ListNumbers(lines))
    IN DeleteRows(IF Len(dl) > 1 THEN Reverse(dl) ELSE dl, st1, osort, tsort)

\* the host reloads the controller's table and calls update(); the record at
\* position k is the first of a tool the registry does not know, and its
\* insert fails
Reload_failing(lines, k, mode) ==
    /\ k \in DOMAIN lines
    /\ lines[k].Tool \notin ToolNumbers(offsets)
    /\ \A j \in 1..(k - 1) : lines[j].Tool # lines[k].Tool
    /\ next_idn + NewRows(Reg(offsets, tools, next_idn), lines) - 1 <= MaxIdn
    /\ LET st == update_failing(Reg(offsets, tools, next_idn), lines,
                                offset_sort, tool_sort, k, mode)
       IN /\ offsets' = st.offsets
          /\ tools' = st.tools
          /\ next_idn' = st.next_idn
          /\ Len(st.tools) <= MaxIdn
    /\ tool_array' = lines
    /\ tool_list' = ListNumbers(lines)
    /\ event' = Ev("update_failed", k)
    /\ HistReset
    /\ UNCHANGED <<offset_sort, tool_sort>>
    /\ UNCHANGED timerState

(***************************************************************************)
(* SpecFail: reconciliation over a store that may refuse an insert.        *)
(***************************************************************************)
FailNext ==
    \/ \E lines \in SeqsUpTo(PlainRecords, ReloadLen) : Reload(lines)
    \/ \E lines \in SeqsUpTo(PlainRecords, ReloadLen), k \in 1..ReloadLen,
          mode \in InsertFailures : Reload_failing(lines, k, mode)
    \/ \E srt \in OffsetSorts : sort(srt)

SpecFail == Init /\ [][FailNext]_vars

(***************************************************************************)
(* Tool_Database.get_next_available().                                     *)
(***************************************************************************)

\* the for loop over range(0, 100) with its break: tno is left at the first
\* number that is not in the list, or at the last number scanned
RECURSIVE next_scan(_, _)
next_scan(tno, tl) ==
    IF tno \notin Range(tl) THEN tno
    ELSE IF tno + 1 < ToolLimit THEN next_scan(tno + 1, tl)
    ELSE tno

\* a scan that starts at 1
next_scan_from_one(tl) == next_scan(1, tl)

\* a scan whose test is inverted: it stops at the first number that is in the list
RECURSIVE next_scan_inverted(_, _)
next_scan_inverted(tno, tl) ==
    IF tno \in Range(tl) THEN tno
    ELSE IF tno + 1 < ToolLimit THEN next_scan_inverted(tno + 1, tl)
    ELSE tno

next_from_zero_inverted(tl) == next_scan_inverted(0, tl)

next_available_of(tl) == next_scan(0, tl)

get_next_available ==
    /\ next_available' = next_available_of(tool_list)
    /\ event' = Ev("get_next_available", 0)
    /\ HistReset
    /\ UNCHANGED <<timer_dict, timer_tenths, auto_mode, interp_run>>
    /\ UNCHANGED regVars

\* the controller tool table 0, 1, .., n-1 without the number `hole`
\* (all of them when hole >= n)
TableUpTo(n, hole) ==
    [i \in 1..(IF hole < n THEN n - 1 ELSE n) |->
        [Tool |-> IF i - 1 < hole THEN i - 1 ELSE i, Data |-> NewToolData]]

(***************************************************************************)
(* SpecNext: Tool_Database.__init__ on a new database file against a       *)
(* controller table of the numbers below n but one (update() adds a row    *)
(* per line, in order; the tools view sorted by TOOL is in the same        *)
(* order), then the host's get_next_available().                           *)
(***************************************************************************)
InitNext ==
    \E n \in 0..ToolLimit, hole \in (0..MaxHole) \cup {ToolLimit} :
        LET lines == TableUpTo(n, hole) IN
           /\ offsets = [i \in 1..Len(lines) |->
                            [idn |-> i, Chk |-> 0, Tool |-> lines[i].Tool, Data |-> lines[i].Data]]
           /\ tools = [i \in 1..Len(lines) |-> [idn |-> i, TOOL |-> lines[i].Tool, TIME |-> 0]]
           /\ offset_sort = NoSort
           /\ tool_sort = [col |-> "TOOL", desc |-> FALSE]
           /\ tool_list = ListNumbers(lines)
           /\ tool_array = lines
           /\ next_idn = Len(lines) + 1
           /\ next_available = 0
           /\ timer_dict = [running |-> FALSE, tool |-> 0, time |-> 0]
           /\ timer_tenths = 0
           /\ auto_mode = FALSE
           /\ interp_run = FALSE
           /\ event = Ev("init", 0)
           /\ h_m = -1
           /\ h_ticks = -1
           /\ h_seed = -1
           /\ h_stop = -1

NextNext == get_next_available

SpecNext == InitNext /\ [][NextNext]_vars

(***************************************************************************)
(* Properties.                                                             *)
(***************************************************************************)
UpdateOps == {"update", "add_tool", "delete_tool"}

\* the tool numbers of the controller's table
ListedNumbers == Range(ListNumbers(tool_array))

\* every offsets row has exactly one tools row of its idn, and vice versa, and
\* the two carry the same tool number
Paired ==
    /\ \A i \in DOMAIN offsets :
          /\ Cardinality({j \in DOMAIN tools : tools[j].idn = offsets[i].idn}) = 1
          /\ \A j \in DOMAIN tools :
                tools[j].idn = offsets[i].idn => tools[j].TOOL = offsets[i].Tool
    /\ \A j \in DOMAIN tools :
          Cardinality({i \in DOMAIN offsets : offsets[i].idn = tools[j].idn}) = 1

CheckedRows == {i \in DOMAIN offsets : offsets[i].Chk = 1}

\* the numbers get_next_available may return that are not known
FreeNumbers == (0..(ToolLimit - 1)) \ Range(tool_list)

\* C1: after every completed update() (also through add_tool and delete_tool)
\* the tool numbers of the offsets table and those of the tools table are
\* exactly the tool numbers of the controller's table.
C1_ReconcileSets ==
    event.op \in UpdateOps =>
        /\ ToolNumbers(offsets) = ListedNumbers
        /\ MetaNumbers(tools) = ListedNumbers

\* C2: in every state between operations each offsets row has exactly one
\* tools row with its idn and vice versa, and the two carry the same tool number.
C2_PairedRows == Paired

\* C3: update() run again right after update(), against the same controller
\* table, changes neither table nor the cached tool list.
C3_Idempotent ==
    event.op \in UpdateOps =>
        LET st == update(Reg(offsets, tools, next_idn), tool_array, offset_sort, tool_sort)
        IN /\ st.offsets = offsets
           /\ st.tools = tools
           /\ st.next_idn = next_idn
           /\ ListNumbers(tool_array) = tool_list

\* C4: after checked = true is set on row R, list_checked_tools() is exactly
\* the one-element list of R's tool number.
C4_Exclusive ==
    event.op = "check" =>
        list_checked_tools(offsets) = <<offsets[event.arg].Tool>>

\* a check of the second row of a registry of several rows
C4_Witness ==
    /\ event = Ev("check", 2)
    /\ Len(offsets) >= 2
    /\ offsets[2].Chk = 1
    /\ offsets[1].Tool # offsets[2].Tool

\* C5: in every state between events at most one offsets row has Chk = 1.
C5_AtMostOneChecked == Cardinality(CheckedRows) <= 1

\* a checked row survives a later operation on a registry of several rows
C5_Witness ==
    /\ Cardinality(CheckedRows) = 1
    /\ Len(offsets) >= 2
    /\ event.op \in UpdateOps \cup {"callOffsetDialog"}

\* C6 as stated: get_next_available() never returns a number of the known
\* list, whatever the list, the list of all of 0..99 included.
C6_NeverKnown ==
    event.op = "get_next_available" => next_available \notin Range(tool_list)

\* C6 amended: get_next_available() returns a number that is not in the known
\* list whenever one of 0..99 is not in it; when all of 0..99 are known it
\* returns 99, which is known.
C6_NeverKnownUnlessFull ==
    event.op = "get_next_available" =>
        IF FreeNumbers # {} THEN next_available \notin Range(tool_list)
        ELSE next_available = ToolLimit - 1 /\ next_available \in Range(tool_list)

\* get_next_available() has answered for a list with all but one of 0..99
C6_Witness ==
    /\ event.op = "get_next_available"
    /\ Cardinality(FreeNumbers) = 1
    /\ next_available \in FreeNumbers

\* C7: started for a tool whose own stored TIME is m, then 10*k heartbeats
\* (k >= 1) and nothing else, then stopped: the tool's stored TIME is
\* m + k/60 minutes, to the three decimals stored (within 0.001 minute).
\* Stated for the states in which the two views list the same rows in the
\* same order.  Times are in thousandths of a minute, so m + k/60 minutes is
\* m + 1000*k/60; the comparison is scaled by 60.
C7_RoundTrip ==
    [][(/\ event'.op = "interp_state" /\ event'.arg = 0
        /\ auto_mode
        /\ timer_dict.running
        /\ h_m >= 0
        /\ h_ticks >= TenthsPerSecond
        /\ h_ticks % TenthsPerSecond = 0
        /\ Aligned)
       => LET stored == StoredTime(tools', timer_dict.tool)
              k == h_ticks \div TenthsPerSecond
              diff == 60 * stored - (60 * h_m + 1000 * k)
          IN -60 <= diff /\ diff <= 60]_vars

\* C8: get_next_available() returns the smallest of 0..99 that is not in the
\* known list, whenever there is one.
C8_SmallestFree ==
    event.op = "get_next_available" /\ FreeNumbers # {} =>
        /\ next_available \in FreeNumbers
        /\ \A t \in FreeNumbers : next_available <= t

\* the registry of tools 0, 1, 2, 4 is answered 3
C8_Witness ==
    /\ event.op = "get_next_available"
    /\ ListNumbers(tool_array) = <<0, 1, 2, 4>>
    /\ tool_list = <<0, 1, 2, 4>>
    /\ next_available = 3

\* C9: whenever the timer is running and an interp-idle event or a
\* tool-in-spindle-changed(0) event is delivered, the timer is not running
\* once the event has been handled.
C9_StopsOnIdleOrToolZero ==
    [][(/\ timer_dict.running
        /\ \/ event'.op = "interp_state" /\ event'.arg = 0
           \/ event'.op = "tool_changed" /\ event'.arg = 0)
       => ~timer_dict'.running]_vars

\* C10: tool-in-spindle-changed(B), B nonzero, while the timer runs for tool
\* A # B in automatic run, both tools in the registry: A's stored TIME is left
\* as it was, the timer's tool becomes B, and the elapsed counter is seeded
\* from B's stored TIME.
C10_SwitchWhileRunning ==
    [][(/\ event'.op = "tool_changed" /\ event'.arg > 0
        /\ event'.arg # timer_dict.tool
        /\ timer_dict.running /\ auto_mode /\ interp_run
        /\ Paired
        /\ StoredTime(tools, timer_dict.tool) >= 0
        /\ StoredTime(tools, event'.arg) >= 0)
       => /\ StoredTime(tools', timer_dict.tool) = StoredTime(tools, timer_dict.tool)
          /\ timer_dict'.tool = event'.arg
          /\ timer_dict'.time = pre_time_seconds(StoredTime(tools, event'.arg))]_vars

\* the interp-idle event is delivered in automatic mode while the timer runs:
\* the Running -> Idle transition
StopStep ==
    /\ event'.op = "interp_state" /\ event'.arg = 0
    /\ auto_mode
    /\ timer_dict.running

\* C11: on a Running -> Idle transition the elapsed time is written into the
\* TIME of every tools row whose tool number is the timer's tool, and every
\* other tools row is left as it was (no row changes when no row has the
\* timer's tool).
C11_StopWritesOwnRow ==
    [][StopStep =>
        /\ Len(tools') = Len(tools)
        /\ \A j \in DOMAIN tools :
              tools'[j] = IF tools[j].TOOL = timer_dict.tool
                          THEN [tools[j] EXCEPT !.TIME = total_time(timer_dict.time)]
                          ELSE tools[j]]_vars

\* C12: a start that follows a stop at once (no heartbeat, no other event in
\* between), for a tool that has a row, the two views aligned, leaves the
\* elapsed counter at the value the stop wrote.
C12_ResumeRestoresElapsed ==
    [][(/\ h_stop >= 0
        /\ event'.op = "interp_state" /\ event'.arg = 1
        /\ auto_mode
        /\ Aligned
        /\ StoredTime(tools, timer_dict.tool) >= 0)
       => timer_dict'.time = h_stop]_vars

\* C16: whenever a stop writes into the row of the timer's tool T, the value
\* is the seed of T's own stored TIME at the most recent start for T (nothing
\* for a tool without a row) plus the seconds counted since that start.
\* Stated for starts and stops at which the two views are aligned.
C16_NoLeakage ==
    [][(/\ StopStep
        /\ h_seed >= 0
        /\ Aligned
        /\ StoredTime(tools, timer_dict.tool) >= 0)
       => StoredTime(tools', timer_dict.tool) = total_time(h_seed)]_vars

\* no two offsets rows carry the same tool number
NoDup ==
    \A i, j \in DOMAIN offsets : offsets[i].Tool = offsets[j].Tool => i = j

\* C13: in every state between operations no two offsets rows have the same
\* tool number.
C13_UniqueToolNumbers == NoDup

\* the offset data of the last record of tool tno in a tool table
LastData(lines, tno) ==
    lines[CHOOSE i \in DOMAIN lines :
             lines[i].Tool = tno /\ \A j \in DOMAIN lines : lines[j].Tool = tno => j <= i].Data

\* C14: an update() against a table whose tool numbers are exactly those of
\* the registry (every record known, nothing to delete) overwrites the offset
\* fields of the row get_index finds for each record and changes nothing
\* else: idn, Chk, the order and number of the offsets rows, and the tools
\* table with its TIME values stay as they were.
C14_UpdateInPlace ==
    [][(/\ event'.op = "update"
        /\ ToolNumbers(offsets) = Range(ListNumbers(tool_array')))
       => /\ tools' = tools
          /\ Len(offsets') = Len(offsets)
          /\ \A i \in DOMAIN offsets :
                offsets'[i] =
                    IF i = get_index(offsets, offsets[i].Tool)
                    THEN [offsets[i] EXCEPT !.Data = LastData(tool_array', offsets[i].Tool)]
                    ELSE offsets[i]]_vars

\* an update() has overwritten the offset data of a checked row of a timed
\* tool: the row is still checked, with the record's data, and its TIME is kept
C14_Witness ==
    /\ event.op = "update"
    /\ Len(offsets) = 2 /\ Len(tool_array) = 2
    /\ \E i \in DOMAIN offsets :
          /\ offsets[i].Chk = 1
          /\ offsets[i].Data = MaxData
          /\ StoredTime(tools, offsets[i].Tool) > 0

\* C15: when the insert for one record of the controller's table fails during
\* update(), both tables end as update() would have left them had that record
\* not been in the table: the other records are inserted or updated, the
\* deletion pass runs, and the failing record leaves nothing behind.
C15_BestEffort ==
    [][event'.op = "update_failed" =>
        LET absent == update(Reg(offsets, tools, next_idn),
                             RemoveAt(tool_array', event'.arg), offset_sort, tool_sort)
        IN /\ offsets' = absent.offsets
           /\ tools' = absent.tools]_vars

====
